---- MODULE Spec2Model ----
(***************************************************************************)
(* Model of vcard_grabber.py: the search.ch vCard pipeline.                *)
(*                                                                         *)
(* The state is the local store (main folder, keine_email folder,          *)
(* links.txt, links_keine_email.txt, the two CSV files) and the position   *)
(* of the program inside generate_csv_from_vcards.  In the source that     *)
(* function holds the CSV writer (lines 295-310) and, in the same body,    *)
(* the whole pipeline (lines 312-419), whose last statements call          *)
(* generate_csv_from_vcards again (lines 414 and 419): the model keeps the *)
(* return points of these calls in a stack.  The name main of line 422 is  *)
(* defined nowhere, so a behaviour starts with a call of                   *)
(* generate_csv_from_vcards on the main folder.                            *)
(*                                                                         *)
(* The remote site is an input fixed per behaviour: the reported total,    *)
(* the detail links of each search page and the vCard link of each detail  *)
(* page.  Every HTTP request may fail.  vCard files may disappear from     *)
(* outside while the program waits for input.                              *)
(***************************************************************************)
EXTENDS Integers, Sequences, FiniteSets, TLC

\* ---------------------------------------------------------------- bounds
\* largest reported total, pipeline runs started, files removed from
\* outside, largest pause threshold entered
MaxTotal == 2
MaxRuns == 3
MaxDeletes == 1
MaxThreshold == 2

\* ------------------------------------------------------------ text helpers
UpperChars == <<"A","B","C","D","E","F","G","H","I","J","K","L","M",
                "N","O","P","Q","R","S","T","U","V","W","X","Y","Z">>
LowerChars == <<"a","b","c","d","e","f","g","h","i","j","k","l","m",
                "n","o","p","q","r","s","t","u","v","w","x","y","z">>

\* str.lower() / str.upper() on one character
LowerChar(c) ==
    IF \E i \in 1..26 : UpperChars[i] = c
    THEN LowerChars[CHOOSE i \in 1..26 : UpperChars[i] = c]
    ELSE c

UpperChar(c) ==
    IF \E i \in 1..26 : LowerChars[i] = c
    THEN UpperChars[CHOOSE i \in 1..26 : LowerChars[i] = c]
    ELSE c

Lower(s) == [i \in 1..Len(s) |-> LowerChar(s[i])]

Upper(s) == [i \in 1..Len(s) |-> UpperChar(s[i])]

\* sub in s
Contains(s, sub) ==
    \E i \in 1..(Len(s) - Len(sub) + 1) : SubSeq(s, i, i + Len(sub) - 1) = sub

\* s.startswith(p)
StartsWith(s, p) == Len(s) >= Len(p) /\ SubSeq(s, 1, Len(p)) = p

\* s.strip() (blanks only)
RECURSIVE Strip(_)
Strip(s) ==
    IF s = <<>> THEN s
    ELSE IF Head(s) = " " THEN Strip(Tail(s))
    ELSE IF s[Len(s)] = " " THEN Strip(SubSeq(s, 1, Len(s) - 1))
    ELSE s

\* s.split(":", 1): <<s>> without a colon, else <<before, after>>
SplitColon(s) ==
    IF \E i \in 1..Len(s) : s[i] = ":"
    THEN LET k == CHOOSE i \in 1..Len(s) :
                     s[i] = ":" /\ \A j \in 1..(i - 1) : s[j] # ":"
         IN  <<SubSeq(s, 1, k - 1), SubSeq(s, k + 1, Len(s))>>
    ELSE <<s>>

\* -------------------------------------------------------- the remote site
Details == {"d1", "d2"}

\* the search pages on which the site lists detail links; any further
\* page number is served without one
SearchPages == {1, 2}

Files == {"a.vcf", "b.vcf", "c.vcf"}

NoLink == <<>>

\* hrefs containing '/tel/vcard/', as path segments
VcardLinks == {<<"tel", "vcard", f>> : f \in Files}

\* the vCard text served for each file name, as lines of characters
VcardText ==
    [f \in Files |->
        CASE f = "a.vcf" -> << <<"F","N",":","A">>,
                               <<"E","M","A","I","L",":","a","@","x"," ">> >>
          [] f = "b.vcf" -> << <<"F","N",":","B">>,
                               <<"T","E","L",":","0","1">> >>
          [] f = "c.vcf" -> << <<"F","N",":","C">>,
                               <<"O","R","G",":","E","m","a","i","l"," ","A","G">> >>]

\* os.path.basename(urlparse(vcard_link).path)
Basename(link) == link[Len(link)]

\* "email" not in content.lower()   (negated: the file stays in the main folder)
ContainsEmailText(content) ==
    \E i \in 1..Len(content) : Contains(Lower(content[i]), <<"e","m","a","i","l">>)

\* parse_vcard: the "Email" column, all EMAIL values joined with ", "
RECURSIVE ParseEmail(_, _)
ParseEmail(content, acc) ==
    IF content = <<>> THEN acc
    ELSE LET line == Strip(Head(content))
             parts == SplitColon(line)
             isEmail == StartsWith(Upper(line), <<"E","M","A","I","L">>)
                        /\ Len(parts) = 2
             email == IF isEmail THEN Strip(parts[2]) ELSE <<>>
             acc2 == IF ~isEmail THEN acc
                     ELSE IF acc # <<>> THEN acc \o <<",", " ">> \o email
                     ELSE email
         IN  ParseEmail(Tail(content), acc2)

\* evaluated once per file name
MovesToKeineEmail == [f \in Files |-> ~ContainsEmailText(VcardText[f])]

EmailColumn == [f \in Files |-> ParseEmail(VcardText[f], <<>>)]


\* ------------------------------------------------------------------ state
VARIABLES
    total,                \* the number in <span class="tel-result-count">
    pageLinks,            \* detail hrefs on each search page
    vlink,                \* vCard href on each detail page, or NoLink
    mainFiles,            \* *.vcf in output_dir
    keineFiles,           \* *.vcf in output_dir/keine_email
    linksTxt,             \* links.txt, a sequence of <<filename, detail_url>>
    linksKeine,           \* links_keine_email.txt
    csvMain,              \* vcards.csv, rows <<Filename, Email>>
    csvKeine,             \* vcards_keine_email.csv
    pc,                   \* position in generate_csv_from_vcards
    stack,                \* return points of the enclosing calls
    folder,               \* the folder argument of the current call
    additional_threshold,
    total_pages,
    page,
    todo,                 \* detail_urls of the current page not yet iterated
    processed_details,
    downloaded_count,
    runs,                 \* pipeline bodies started
    deletes,              \* files removed from outside
    reqLog,               \* this run's search-page requests, <<page, ok>>
    pauses,               \* additional pauses taken in this run
    procCount,            \* times each detail URL got past line 366 in this run
    dlLog,                \* files written by download_vcard in this run
    dlFailed,             \* <<filename, detail_url>> whose download failed in this run
    overwrote,            \* a download was started for a file that existed
    missed,               \* a linked file absent from both folders was not fetched
    runFailed,            \* some request of this run failed
    prevKind,             \* how the previous pipeline body ended
    prevSnap,             \* links.txt and main folder as the last final pass left them
    outsideChange,        \* a file was removed from outside since the last final pass
    cleanRepeat           \* the final pass just made followed a failure-free complete run

remoteVars == <<total, pageLinks, vlink>>

storeVars == <<mainFiles, keineFiles, linksTxt, linksKeine>>

csvVars == <<csvMain, csvKeine>>

localVars == <<additional_threshold, total_pages, page, todo,
               processed_details, downloaded_count>>

runHist == <<reqLog, pauses, procCount, dlLog, dlFailed, overwrote, missed, runFailed>>

snapHist == <<prevKind, prevSnap, outsideChange, cleanRepeat>>

vars == <<remoteVars, storeVars, csvVars, pc, stack, folder, localVars,
          runs, deletes, runHist, snapHist>>

\* ------------------------------------------------------- pure operators
\* math.ceil(total_results / results_per_page)
Ceil(t, p) == (t + p - 1) \div p

\* extract_detail_urls of the page the site serves for ?pages=p
PageContent(p) == IF p \in DOMAIN pageLinks THEN pageLinks[p] ELSE {}

\* a check of the main folder alone
FileExistsMainOnly(f, main, keine) == f \in main

\* os.path.exists(vcard_filepath) or os.path.exists(keine_email_path)
FileExists(f, main, keine) == f \in main \/ f \in keine

\* no URL is ever taken for processed
NeverProcessed(d, processed) == FALSE

\* detail_url in processed_details
AlreadyProcessed(d, processed) == d \in processed

\* downloaded_count > 0 and downloaded_count % additional_threshold == 0
LongPause(dc, n) == dc > 0 /\ dc % n = 0

\* the files shutil.move takes out of the main folder
MovedFiles(main) == {f \in main : MovesToKeineEmail[f]}

\* main_lines: entries of links.txt whose file is in the main folder
MainLines(lines, main) == SelectSeq(lines, LAMBDA e : e[1] \in main)

\* keine_email_lines: entries of links.txt whose file is only in keine_email
KeineLines(lines, main, keine) ==
    SelectSeq(lines, LAMBDA e : e[1] \notin main /\ e[1] \in keine)

\* the rows generate_csv_from_vcards writes for a folder
CsvRows(files) == {<<f, EmailColumn[f]>> : f \in files}

Range(s) == {s[i] : i \in 1..Len(s)}

\* ------------------------------------------------------------------ Init
Init ==
    /\ total \in 0..MaxTotal
    /\ pageLinks \in [SearchPages -> SUBSET Details]
    \* the two detail links are interchangeable: "d1" names the one the
    \* first page lists when it lists only one
    /\ "d2" \in pageLinks[1] => "d1" \in pageLinks[1]
    /\ vlink \in [Details -> VcardLinks \cup {NoLink}]
    /\ mainFiles = {} /\ keineFiles = {}
    /\ linksTxt = <<>> /\ linksKeine = <<>>
    /\ csvMain = {} /\ csvKeine = {}
    /\ pc = "csv" /\ stack = <<>> /\ folder = "main"
    /\ additional_threshold = 1 /\ total_pages = 0 /\ page = 0
    /\ todo = {} /\ processed_details = {} /\ downloaded_count = 0
    /\ runs = 0 /\ deletes = 0
    /\ reqLog = <<>> /\ pauses = 0
    /\ procCount = [d \in Details |-> 0]
    /\ dlLog = <<>> /\ dlFailed = {}
    /\ overwrote = FALSE /\ missed = FALSE /\ runFailed = FALSE
    /\ prevKind = "none"
    /\ prevSnap = [links |-> <<>>, main |-> {}]
    /\ outsideChange = FALSE /\ cleanRepeat = FALSE

\* --------------------------------------------------------------- actions
\* a call of generate_csv_from_vcards starts with fresh locals; the caller
\* reads none of its own again except output_dir
FreshLocals ==
    /\ total_pages' = 0 /\ page' = 0 /\ todo' = {}
    /\ processed_details' = {} /\ downloaded_count' = 0
    /\ reqLog' = <<>> /\ pauses' = 0
    /\ procCount' = [d \in Details |-> 0]
    /\ dlLog' = <<>> /\ dlFailed' = {}
    /\ overwrote' = FALSE /\ missed' = FALSE /\ runFailed' = FALSE

\* lines 295-310: the CSV of the folder passed in
WriteCsv ==
    /\ pc = "csv"
    /\ IF folder = "main"
       THEN csvMain' = CsvRows(mainFiles) /\ UNCHANGED csvKeine
       ELSE csvKeine' = CsvRows(keineFiles) /\ UNCHANGED csvMain
    /\ pc' = "prompt"
    /\ UNCHANGED <<remoteVars, storeVars, stack, folder, localVars,
                   runs, deletes, runHist, snapHist>>

\* a vCard file disappears while the program waits at input()
OutsideDelete ==
    /\ pc = "prompt"
    /\ deletes < MaxDeletes
    /\ \E f \in mainFiles \cup keineFiles :
         /\ mainFiles' = mainFiles \ {f}
         /\ keineFiles' = keineFiles \ {f}
    /\ deletes' = deletes + 1
    /\ outsideChange' = TRUE
    /\ UNCHANGED <<remoteVars, linksTxt, linksKeine, csvVars, pc, stack, folder,
                   localVars, runs, runHist, prevKind, prevSnap, cleanRepeat>>

\* lines 313-323: get_user_input, get_delay_settings, makedirs
Prompt ==
    /\ pc = "prompt"
    /\ runs < MaxRuns
    /\ \E n \in 1..MaxThreshold : additional_threshold' = n
    /\ runs' = runs + 1
    /\ FreshLocals
    /\ pc' = "first"
    /\ UNCHANGED <<remoteVars, storeVars, csvVars, stack, folder, deletes, snapHist>>

\* lines 326-330: get_search_page(1) raises, the call returns
FirstPageFail ==
    /\ pc = "first"
    /\ reqLog' = Append(reqLog, <<1, FALSE>>)
    /\ runFailed' = TRUE
    /\ prevKind' = "early"
    /\ pc' = "return"
    /\ UNCHANGED <<remoteVars, storeVars, csvVars, stack, folder, localVars,
                   runs, deletes, pauses, procCount, dlLog, dlFailed, overwrote,
                   missed, prevSnap, outsideChange, cleanRepeat>>

\* lines 326-340: first page fetched, but no result count or no detail link
FirstPageEmpty ==
    /\ pc = "first"
    /\ total = 0 \/ PageContent(1) = {}
    /\ reqLog' = Append(reqLog, <<1, TRUE>>)
    /\ prevKind' = "early"
    /\ pc' = "return"
    /\ UNCHANGED <<remoteVars, storeVars, csvVars, stack, folder, localVars,
                   runs, deletes, pauses, procCount, dlLog, dlFailed, overwrote,
                   missed, runFailed, prevSnap, outsideChange, cleanRepeat>>

\* lines 326-347: first page fetched, page count computed
FirstPageOk ==
    /\ pc = "first"
    /\ total # 0 /\ PageContent(1) # {}
    /\ reqLog' = Append(reqLog, <<1, TRUE>>)
    /\ total_pages' = Ceil(total, Cardinality(PageContent(1)))
    /\ downloaded_count' = 0
    /\ processed_details' = {}
    /\ page' = 1
    /\ pc' = "loop"
    /\ UNCHANGED <<remoteVars, storeVars, csvVars, stack, folder,
                   additional_threshold, todo, runs, deletes, pauses, procCount,
                   dlLog, dlFailed, overwrote, missed, runFailed, snapHist>>

\* lines 350-356: get_search_page(page) raises, continue with the next page
PageFail ==
    /\ pc = "loop"
    /\ page <= total_pages
    /\ reqLog' = Append(reqLog, <<page, FALSE>>)
    /\ runFailed' = TRUE
    /\ page' = page + 1
    /\ UNCHANGED <<remoteVars, storeVars, csvVars, pc, stack, folder,
                   additional_threshold, total_pages, todo, processed_details,
                   downloaded_count, runs, deletes, pauses, procCount, dlLog,
                   dlFailed, overwrote, missed, snapHist>>

\* lines 350-359: the page is fetched and its detail links extracted
PageOk ==
    /\ pc = "loop"
    /\ page <= total_pages
    /\ reqLog' = Append(reqLog, <<page, TRUE>>)
    /\ todo' = PageContent(page)
    /\ pc' = "details"
    /\ UNCHANGED <<remoteVars, storeVars, csvVars, stack, folder,
                   additional_threshold, total_pages, page, processed_details,
                   downloaded_count, runs, deletes, pauses, procCount, dlLog,
                   dlFailed, overwrote, missed, runFailed, snapHist>>

\* line 350: range(1, total_pages + 1) is exhausted
LoopExit ==
    /\ pc = "loop"
    /\ page > total_pages
    /\ pc' = "move"
    /\ UNCHANGED <<remoteVars, storeVars, csvVars, stack, folder, localVars,
                   runs, deletes, runHist, snapHist>>

\* line 405: all detail links of the page were iterated
PageDone ==
    /\ pc = "details"
    /\ todo = {}
    /\ page' = page + 1
    /\ pc' = "loop"
    /\ UNCHANGED <<remoteVars, storeVars, csvVars, stack, folder,
                   additional_threshold, total_pages, todo, processed_details,
                   downloaded_count, runs, deletes, runHist, snapHist>>

\* lines 363-365: the detail URL was already handled in this run
SkipProcessed(d) ==
    /\ pc = "details"
    /\ d \in todo
    /\ AlreadyProcessed(d, processed_details)
    /\ todo' = todo \ {d}
    /\ UNCHANGED <<remoteVars, storeVars, csvVars, pc, stack, folder,
                   additional_threshold, total_pages, page, processed_details,
                   downloaded_count, runs, deletes, runHist, snapHist>>

\* lines 366-375: the detail page request raises
DetailFail(d) ==
    /\ pc = "details"
    /\ d \in todo
    /\ ~AlreadyProcessed(d, processed_details)
    /\ todo' = todo \ {d}
    /\ processed_details' = processed_details \cup {d}
    /\ procCount' = [procCount EXCEPT ![d] = @ + 1]
    /\ runFailed' = TRUE
    /\ UNCHANGED <<remoteVars, storeVars, csvVars, pc, stack, folder,
                   additional_threshold, total_pages, page, downloaded_count,
                   runs, deletes, reqLog, pauses, dlLog, dlFailed, overwrote,
                   missed, snapHist>>

\* lines 366-380: the detail page has no vCard link
NoVcardLink(d) ==
    /\ pc = "details"
    /\ d \in todo
    /\ ~AlreadyProcessed(d, processed_details)
    /\ vlink[d] = NoLink
    /\ todo' = todo \ {d}
    /\ processed_details' = processed_details \cup {d}
    /\ procCount' = [procCount EXCEPT ![d] = @ + 1]
    /\ UNCHANGED <<remoteVars, storeVars, csvVars, pc, stack, folder,
                   additional_threshold, total_pages, page, downloaded_count,
                   runs, deletes, reqLog, pauses, dlLog, dlFailed, overwrote,
                   missed, runFailed, snapHist>>

\* lines 382-388, 400-403: the file is already there, only the pauses follow
AlreadyExists(d) ==
    /\ pc = "details"
    /\ d \in todo
    /\ ~AlreadyProcessed(d, processed_details)
    /\ vlink[d] # NoLink
    /\ LET f == Basename(vlink[d]) IN
         /\ FileExists(f, mainFiles, keineFiles)
         /\ missed' = (missed \/ f \notin mainFiles \cup keineFiles)
    /\ todo' = todo \ {d}
    /\ processed_details' = processed_details \cup {d}
    /\ procCount' = [procCount EXCEPT ![d] = @ + 1]
    /\ pauses' = IF LongPause(downloaded_count, additional_threshold)
                 THEN pauses + 1 ELSE pauses
    /\ UNCHANGED <<remoteVars, storeVars, csvVars, pc, stack, folder,
                   additional_threshold, total_pages, page, downloaded_count,
                   runs, deletes, reqLog, dlLog, dlFailed, overwrote,
                   runFailed, snapHist>>

\* lines 389-395, 400-403: download_vcard succeeds, links.txt gets the entry
DownloadOk(d) ==
    /\ pc = "details"
    /\ d \in todo
    /\ ~AlreadyProcessed(d, processed_details)
    /\ vlink[d] # NoLink
    /\ LET f == Basename(vlink[d]) IN
         /\ ~FileExists(f, mainFiles, keineFiles)
         /\ overwrote' = (overwrote \/ f \in mainFiles \cup keineFiles)
         /\ mainFiles' = mainFiles \cup {f}
         /\ linksTxt' = Append(linksTxt, <<f, d>>)
         /\ dlLog' = Append(dlLog, f)
    /\ downloaded_count' = downloaded_count + 1
    /\ todo' = todo \ {d}
    /\ processed_details' = processed_details \cup {d}
    /\ procCount' = [procCount EXCEPT ![d] = @ + 1]
    /\ pauses' = IF LongPause(downloaded_count + 1, additional_threshold)
                 THEN pauses + 1 ELSE pauses
    /\ UNCHANGED <<remoteVars, keineFiles, linksKeine, csvVars, pc, stack, folder,
                   additional_threshold, total_pages, page, runs, deletes,
                   reqLog, dlFailed, missed, runFailed, snapHist>>

\* lines 389-398: download_vcard raises before the file is opened, continue
DownloadFail(d) ==
    /\ pc = "details"
    /\ d \in todo
    /\ ~AlreadyProcessed(d, processed_details)
    /\ vlink[d] # NoLink
    /\ LET f == Basename(vlink[d]) IN
         /\ ~FileExists(f, mainFiles, keineFiles)
         /\ overwrote' = (overwrote \/ f \in mainFiles \cup keineFiles)
         /\ dlFailed' = dlFailed \cup {<<f, d>>}
    /\ runFailed' = TRUE
    /\ todo' = todo \ {d}
    /\ processed_details' = processed_details \cup {d}
    /\ procCount' = [procCount EXCEPT ![d] = @ + 1]
    /\ UNCHANGED <<remoteVars, storeVars, csvVars, pc, stack, folder,
                   additional_threshold, total_pages, page, downloaded_count,
                   runs, deletes, reqLog, pauses, dlLog, missed, snapHist>>

\* line 410, lines 157-215: move_vcards_without_email
MoveVcards ==
    /\ pc = "move"
    /\ LET newMain == mainFiles \ MovedFiles(mainFiles)
           newKeine == keineFiles \cup MovedFiles(mainFiles)
       IN  /\ mainFiles' = newMain
           /\ keineFiles' = newKeine
           /\ linksTxt' = MainLines(linksTxt, newMain)
           /\ linksKeine' = KeineLines(linksTxt, newMain, newKeine)
    /\ prevSnap' = [links |-> linksTxt', main |-> mainFiles']
    /\ cleanRepeat' = (prevKind = "clean" /\ ~outsideChange)
    /\ prevKind' = IF runFailed THEN "failed" ELSE "clean"
    /\ outsideChange' = FALSE
    /\ pc' = "moved"
    /\ UNCHANGED <<remoteVars, csvVars, stack, folder, localVars,
                   runs, deletes, runHist>>

\* lines 413-414: generate_csv_from_vcards(output_dir, csv_main)
CallCsvMain ==
    /\ pc = "moved"
    /\ stack' = <<"after414">> \o stack
    /\ folder' = "main"
    /\ pc' = "csv"
    /\ FreshLocals
    /\ additional_threshold' = 1
    /\ cleanRepeat' = FALSE
    /\ UNCHANGED <<remoteVars, storeVars, csvVars, runs, deletes,
                   prevKind, prevSnap, outsideChange>>

\* lines 416-419: the call of line 414 came back,
\* generate_csv_from_vcards(keine_email_folder, csv_keine)
CallCsvKeine ==
    /\ pc = "return"
    /\ stack # <<>> /\ Head(stack) = "after414"
    /\ stack' = <<"after419">> \o Tail(stack)
    /\ folder' = "keine"
    /\ pc' = "csv"
    /\ FreshLocals
    /\ additional_threshold' = 1
    /\ UNCHANGED <<remoteVars, storeVars, csvVars, runs, deletes, snapHist>>

\* the call of line 419 came back, the enclosing call ends as well
ReturnNested ==
    /\ pc = "return"
    /\ stack # <<>> /\ Head(stack) = "after419"
    /\ stack' = Tail(stack)
    /\ UNCHANGED <<remoteVars, storeVars, csvVars, pc, folder, localVars,
                   runs, deletes, runHist, snapHist>>

\* the outermost call returns
ReturnTop ==
    /\ pc = "return"
    /\ stack = <<>>
    /\ pc' = "done"
    /\ UNCHANGED <<remoteVars, storeVars, csvVars, stack, folder, localVars,
                   runs, deletes, runHist, snapHist>>

Next ==
    \/ WriteCsv
    \/ OutsideDelete
    \/ Prompt
    \/ FirstPageFail
    \/ FirstPageEmpty
    \/ FirstPageOk
    \/ PageFail
    \/ PageOk
    \/ LoopExit
    \/ PageDone
    \/ \E d \in Details : SkipProcessed(d)
    \/ \E d \in Details : DetailFail(d)
    \/ \E d \in Details : NoVcardLink(d)
    \/ \E d \in Details : AlreadyExists(d)
    \/ \E d \in Details : DownloadOk(d)
    \/ \E d \in Details : DownloadFail(d)
    \/ MoveVcards
    \/ CallCsvMain
    \/ CallCsvKeine
    \/ ReturnNested
    \/ ReturnTop

Spec == Init /\ [][Next]_vars

\* ---------------------------------------------------------------- claims
InRun == pc \in {"loop", "details", "move"}

FinalPassStep == pc = "move" /\ pc' = "moved"

C2_NoEntryLost ==
    [][FinalPassStep
         => \A e \in Range(linksTxt) \cup Range(linksKeine) :
               e[1] \in mainFiles' \cup keineFiles'
                 => e \in Range(linksTxt') \cup Range(linksKeine')]_vars

\* C3: after the final pass every stored vCard is in exactly one folder, and
\* it is in keine_email exactly when its Email column is empty.
C3_ExactPartition ==
    pc = "moved" =>
        \A f \in mainFiles \cup keineFiles :
            /\ ~(f \in mainFiles /\ f \in keineFiles)
            /\ (f \in keineFiles <=> EmailColumn[f] = <<>>)

\* C4: when the page loop is over, the search pages requested in the run are
\* 1, 2, ..., ceil(total / results per page), each once and in this order.
C4_PageRequests ==
    pc = "move" =>
        [i \in 1..Len(reqLog) |-> reqLog[i][1]] = [i \in 1..total_pages |-> i]

\* C5: no search page is requested in a run after a search-page request of
\* that run has failed.
C5_StopAfterPageFailure ==
    \A i \in 1..(Len(reqLog) - 1) : reqLog[i][2]

\* C6: after the final pass, every record whose vCard download failed in the
\* run has an entry in links.txt or links_keine_email.txt.
C6_FailedRecordKept ==
    pc = "moved" =>
        \A e \in dlFailed :
            \E x \in Range(linksTxt) \cup Range(linksKeine) : x[2] = e[2]

\* C7: in one run every detail URL gets past the processed check at most
\* once and no file name is downloaded twice; a vCard whose file is in the
\* main folder or in keine_email when it is met is not downloaded and adds
\* nothing to links.txt, one whose file is in neither is fetched; links.txt
\* grows by exactly one entry per download.
C7_AtMostOnce ==
    /\ \A d \in Details : procCount[d] <= 1
    /\ \A i, j \in 1..Len(dlLog) : dlLog[i] = dlLog[j] => i = j
    /\ ~overwrote
    /\ ~missed
    /\ InRun =>
         /\ Len(linksTxt) = Len(prevSnap.links) + Len(dlLog)
         /\ SubSeq(linksTxt, 1, Len(prevSnap.links)) = prevSnap.links
         /\ \A i \in 1..Len(dlLog) : linksTxt[Len(prevSnap.links) + i][1] = dlLog[i]

\* a run over two pages that list the same detail link: one vCard was
\* skipped because its file was in keine_email, another was downloaded
C7_Witness ==
    /\ pc = "move"
    /\ ~runFailed
    /\ Len(reqLog) = 3
    /\ pageLinks[1] \cap pageLinks[2] # {}
    /\ Len(dlLog) = 1
    /\ \E d \in processed_details :
         vlink[d] # NoLink /\ Basename(vlink[d]) \in keineFiles

\* C8: after the final pass no file name has two entries in links.txt and
\* links_keine_email.txt taken together.
C8_UniqueKey ==
    pc = "moved" =>
        LET all == linksTxt \o linksKeine
        IN  \A i, j \in 1..Len(all) : all[i][1] = all[j][1] => i = j

\* C9: the CSV generation of the final pass starts no pipeline run: no run
\* is under way inside a call made at line 414 or 419.
C9_CsvStepStartsNoRun ==
    stack # <<>> => pc \notin {"first", "loop", "details", "move", "moved"}

\* C10: the additional pause has been taken once per additional_threshold
\* downloads of the run.
C10_PausePerBatch ==
    pauses = downloaded_count \div additional_threshold

====
